---- MODULE Spec2Model ----
(***************************************************************************)
(* A model of ebook.js (node-html2epub): the heading parser                *)
(* (getHeadingID, parseHeadingsSync) and the table-of-contents builders    *)
(* (buildToC_txt, buildToC_json, buildToC_ncx, buildToC_xhtml, buildToC).  *)
(*                                                                         *)
(* A tree (the json ToC, a cheerio document) is a function from paths to   *)
(* nodes: the path <<>> is the root, p \o <<i>> is the i-th child of p.    *)
(***************************************************************************)
EXTENDS Integers, Sequences, FiniteSets, TLC

(***************************************************************************)
(* Bounds of the model.                                                    *)
(***************************************************************************)
MaxHeadings == 4
MaxLevel == 3
MaxPages == 2
SmallDepth == 2

(***************************************************************************)
(* Program constants.                                                      *)
(***************************************************************************)
DefaultDepth == 6
IndentBase == 4
IndentStep == 2

\* JavaScript's undefined (an absent property, a hole of an array).
Undefined == "undefined"

Truthy(v) == v # Undefined /\ v # ""

(***************************************************************************)
(* Paths and trees.                                                        *)
(***************************************************************************)
IsPrefix(p, q) == Len(p) <= Len(q) /\ SubSeq(q, 1, Len(p)) = p

Children(t, p) == {q \in DOMAIN t : Len(q) = Len(p) + 1 /\ IsPrefix(p, q)}

\* array.length of the children of p
NumChildren(t, p) == Cardinality(Children(t, p))

\* array.push / cheerio append of one node: the new last child of p
PushChild(t, p, node) == t @@ ((p \o <<NumChildren(t, p) + 1>>) :> node)

\* document order of two nodes of one tree
DocBefore(p, q) ==
    /\ p # q
    /\ \/ IsPrefix(p, q)
       \/ \E i \in 1..Len(p) :
            /\ i <= Len(q)
            /\ p[i] < q[i]
            /\ \A j \in 1..(i - 1) : p[j] = q[j]

\* the paths of S in document order
RECURSIVE InDocOrder(_)
InDocOrder(S) ==
    IF S = {} THEN <<>>
    ELSE LET first == CHOOSE p \in S : \A q \in S : q = p \/ DocBefore(p, q)
         IN  <<first>> \o InDocOrder(S \ {first})

(***************************************************************************)
(* The pages a builder reads: pages.forEach(page.headings.forEach(...)).   *)
(***************************************************************************)
RECURSIVE Stream(_)
Stream(pgs) ==
    IF pgs = <<>> THEN <<>> ELSE Head(pgs).headings \o Stream(Tail(pgs))

(***************************************************************************)
(* buildToC_txt                                                            *)
(***************************************************************************)
indent(level) == IndentBase + IndentStep * level

TxtHeading(text, heading, depth) ==
    IF heading.level < depth
    THEN Append(text, [indent |-> indent(heading.level), title |-> heading.title])
    ELSE text

RECURSIVE TxtRun(_, _, _)
TxtRun(text, hs, depth) ==
    IF hs = <<>> THEN text
    ELSE TxtRun(TxtHeading(text, Head(hs), depth), Tail(hs), depth)

buildToC_txt(pgs, depth) == TxtRun(<<>>, Stream(pgs), depth)

(***************************************************************************)
(* buildToC_json.  An entry is [title, href, children]; children is TRUE   *)
(* when the entry has a children array (its items are the child paths).    *)
(* A builder state is [toc, current, currentLevel, diag, branch, created,  *)
(* crashed]: branch is the branch the last heading took, created the       *)
(* history of the entries pushed (path and level, oldest first), crashed   *)
(* an uncaught TypeError.                                                  *)
(***************************************************************************)
EmptyToc == <<>> :> [title |-> Undefined, href |-> Undefined, children |-> TRUE]

Placeholder == [title |-> Undefined, href |-> Undefined, children |-> FALSE]

JsonInit ==
    [toc |-> EmptyToc, current |-> <<>>, currentLevel |-> 0, diag |-> <<>>,
     branch |-> "none", created |-> <<>>, crashed |-> FALSE]

\* current.children = []
ResetChildren(t, p) ==
    [q \in {r \in DOMAIN t : r = p \/ ~IsPrefix(p, r)} |->
        IF q = p THEN [t[q] EXCEPT !.children = TRUE] ELSE t[q]]

\* a walk through the first child of each level instead of the last
RECURSIVE WalkFirst(_, _, _)
WalkFirst(t, p, n) ==
    IF n = 0 THEN [ok |-> TRUE, at |-> p]
    ELSE IF ~t[p].children \/ NumChildren(t, p) = 0 THEN [ok |-> FALSE, at |-> p]
    ELSE WalkFirst(t, p \o <<1>>, n - 1)

\* current = current.children[current.children.length - 1], n times from p;
\* ok is FALSE when a children array is missing or empty on the way
RECURSIVE WalkLast(_, _, _)
WalkLast(t, p, n) ==
    IF n = 0 THEN [ok |-> TRUE, at |-> p]
    ELSE IF ~t[p].children \/ NumChildren(t, p) = 0 THEN [ok |-> FALSE, at |-> p]
    ELSE WalkLast(t, p \o <<NumChildren(t, p)>>, n - 1)

\* an ascend that forgets current = toc and walks on from the insertion point
JsonAscend_fromCurrent(s, level) ==
    LET w == WalkLast(s.toc, s.current, level)
    IN  [s EXCEPT !.branch = "ascend", !.current = w.at, !.crashed = ~w.ok]

\* heading.level < currentLevel: retrieve existing parent branch
JsonAscend(s, level) ==
    LET w == WalkLast(s.toc, <<>>, level)
    IN  [s EXCEPT !.branch = "ascend", !.current = w.at, !.crashed = ~w.ok]

\* a descend into the first child instead of the last
JsonDescend_first(s) ==
    LET w == WalkFirst(s.toc, s.current, 1)
    IN  IF ~w.ok THEN [s EXCEPT !.branch = "descend", !.crashed = TRUE]
        ELSE [s EXCEPT !.branch = "descend", !.current = w.at,
                       !.toc = ResetChildren(s.toc, w.at)]

\* heading.level == currentLevel + 1: create a new branch
JsonDescend(s) ==
    LET w == WalkLast(s.toc, s.current, 1)
    IN  IF ~w.ok THEN [s EXCEPT !.branch = "descend", !.crashed = TRUE]
        ELSE [s EXCEPT !.branch = "descend", !.current = w.at,
                       !.toc = ResetChildren(s.toc, w.at)]

\* a lenient loop that pushes a placeholder in every round, also when the
\* insertion point already has children
RECURSIVE JsonNested_always(_, _, _)
JsonNested_always(s, j, n) ==
    IF j >= n THEN s
    ELSE LET t1 == PushChild(s.toc, s.current, Placeholder)
             c1 == s.current \o <<NumChildren(t1, s.current)>>
         IN  JsonNested_always(
                 [s EXCEPT !.toc = ResetChildren(t1, c1), !.current = c1,
                           !.created = Append(@, [path |-> c1,
                                                  level |-> s.currentLevel + j])],
                 j + 1, n)

\* a lenient loop that stops one round early
RECURSIVE JsonNested_short(_, _, _)
JsonNested_short(s, j, n) ==
    IF j >= n - 1 THEN s
    ELSE LET empty == NumChildren(s.toc, s.current) = 0
             t1 == IF empty THEN PushChild(s.toc, s.current, Placeholder) ELSE s.toc
             c1 == s.current \o <<NumChildren(t1, s.current)>>
             made == IF empty
                     THEN Append(s.created, [path |-> c1, level |-> s.currentLevel + j])
                     ELSE s.created
         IN  JsonNested_short([s EXCEPT !.toc = ResetChildren(t1, c1), !.current = c1,
                                        !.created = made], j + 1, n)

\* the lenient loop: for (j = 0; j < heading.level - currentLevel; j++)
RECURSIVE JsonNested(_, _, _)
JsonNested(s, j, n) ==
    IF j >= n THEN s
    ELSE LET empty == NumChildren(s.toc, s.current) = 0
             t1 == IF empty THEN PushChild(s.toc, s.current, Placeholder) ELSE s.toc
             c1 == s.current \o <<NumChildren(t1, s.current)>>
             made == IF empty
                     THEN Append(s.created, [path |-> c1, level |-> s.currentLevel + j])
                     ELSE s.created
         IN  JsonNested([s EXCEPT !.toc = ResetChildren(t1, c1), !.current = c1,
                                  !.created = made], j + 1, n)

\* a strict drop that still records the level of the dropped heading
JsonJump_level(s, heading, strict) ==
    LET warned == [s EXCEPT !.branch = "jump",
                            !.diag = Append(@, [msg |-> "non-continous heading",
                                                level |-> heading.level,
                                                title |-> heading.title])]
    IN  IF strict THEN [warned EXCEPT !.currentLevel = heading.level]
        ELSE JsonNested(warned, 0, heading.level - s.currentLevel)

\* heading.level > currentLevel + 1: create nested branches
JsonJump(s, heading, strict) ==
    LET warned == [s EXCEPT !.branch = "jump",
                            !.diag = Append(@, [msg |-> "non-continous heading",
                                                level |-> heading.level,
                                                title |-> heading.title])]
    IN  IF strict THEN warned
        ELSE JsonNested(warned, 0, heading.level - s.currentLevel)

\* an add that forgets currentLevel = heading.level
JsonAdd_keepLevel(s, heading) ==
    IF ~s.toc[s.current].children THEN [s EXCEPT !.crashed = TRUE]
    ELSE LET t == [title |-> heading.title, href |-> heading.href, children |-> FALSE]
             tree == PushChild(s.toc, s.current, t)
         IN  [s EXCEPT !.toc = tree,
                       !.created = Append(@, [path |-> s.current \o <<NumChildren(tree, s.current)>>,
                                              level |-> heading.level])]

\* add heading to ToC tree
JsonAdd(s, heading) ==
    IF ~s.toc[s.current].children THEN [s EXCEPT !.crashed = TRUE]
    ELSE LET t == [title |-> heading.title, href |-> heading.href, children |-> FALSE]
             tree == PushChild(s.toc, s.current, t)
         IN  [s EXCEPT !.toc = tree, !.currentLevel = heading.level,
                       !.created = Append(@, [path |-> s.current \o <<NumChildren(tree, s.current)>>,
                                              level |-> heading.level])]

JsonHeading(s, heading, depth, strict) ==
    IF ~(heading.level < depth) THEN [s EXCEPT !.branch = "skip"]
    ELSE LET sel == IF heading.level < s.currentLevel THEN JsonAscend(s, heading.level)
                    ELSE IF heading.level = s.currentLevel + 1 THEN JsonDescend(s)
                    ELSE IF heading.level > s.currentLevel + 1 THEN JsonJump(s, heading, strict)
                    ELSE [s EXCEPT !.branch = "sibling"]
         IN  IF sel.crashed THEN [s EXCEPT !.branch = sel.branch, !.crashed = TRUE]
             ELSE IF sel.branch = "jump" /\ strict THEN sel
             ELSE JsonAdd(sel, heading)

RECURSIVE JsonRun(_, _, _, _)
JsonRun(s, hs, depth, strict) ==
    IF hs = <<>> \/ s.crashed THEN s
    ELSE JsonRun(JsonHeading(s, Head(hs), depth, strict), Tail(hs), depth, strict)

\* buildToC_json(pages, depth, strict): the builder state at the return
buildToC_json(pgs, depth, strict) == JsonRun(JsonInit, Stream(pgs), depth, strict)

(***************************************************************************)
(* cheerio.  A document is a tree of nodes [tag, title, href, indent,      *)
(* playOrder]; a selection is a set of paths (here of at most one).        *)
(***************************************************************************)
\* selection.find(tag): the descendants with that tag
Find(d, sel, tag) ==
    {q \in DOMAIN d : d[q].tag = tag /\ \E p \in sel : p # q /\ IsPrefix(p, q)}

\* selection.last(): the last element in document order
Last(sel) ==
    IF sel = {} THEN {}
    ELSE {CHOOSE p \in sel : \A q \in sel : q = p \/ DocBefore(q, p)}

\* selection.append(markup): chain is the markup's elements, each the only
\* child of the one before; nothing happens on an empty selection
RECURSIVE AppendChain(_, _, _)
AppendChain(d, p, chain) ==
    IF chain = <<>> THEN d
    ELSE LET d1 == PushChild(d, p, Head(chain))
         IN  AppendChain(d1, p \o <<NumChildren(d1, p)>>, Tail(chain))

SelAppend(d, sel, chain) ==
    IF sel = {} THEN d ELSE AppendChain(d, CHOOSE p \in sel : TRUE, chain)

\* array[i] = v, on an array with holes
ArraySet(a, i, v) == [k \in DOMAIN a \cup {i} |-> IF k = i THEN v ELSE a[k]]

\* '' + v: the text of a value in a string concatenation
JsString(v) == IF v = Undefined THEN "undefined" ELSE v

\* '<content src="' + heading.href + '" />'
NcxContent(href) == [elt |-> "content", attr |-> "src", target |-> JsString(href)]

\* heading.href ? '<a href="' + heading.href + '">' ... : '<span>' ...
XhtmlTitle(href) ==
    IF Truthy(href) THEN [elt |-> "a", attr |-> "href", target |-> JsString(href)]
    ELSE [elt |-> "span", attr |-> "", target |-> ""]

\* the element of an entry that holds its title or its link
Markup(tag, href) ==
    IF tag = "navPoint" THEN NcxContent(href)
    ELSE IF tag = "li" THEN XhtmlTitle(href)
    ELSE [elt |-> "", attr |-> "", target |-> ""]

Node(tag, title, href, ind, order) ==
    [tag |-> tag, title |-> title, href |-> href, indent |-> ind, playOrder |-> order,
     link |-> Markup(tag, href)]

Element(tag) == Node(tag, Undefined, Undefined, 0, 0)

(***************************************************************************)
(* buildToC_ncx.  A builder state is [dom, nav, currentLevel, playOrder,   *)
(* crashed].                                                               *)
(***************************************************************************)
NcxInit ==
    [dom |-> (<<>> :> Element("root")) @@ (<<1>> :> Element("navMap")),
     nav |-> (0 :> {<<1>>}), currentLevel |-> 0, playOrder |-> 1,
     crashed |-> FALSE]

NcxHeading(s, heading, depth) ==
    IF ~(heading.level < depth) THEN s
    ELSE LET point == Node("navPoint", heading.title, heading.href,
                           indent(heading.level), s.playOrder)
         IN  IF heading.level <= s.currentLevel
             THEN \* re-use current or parent <navPoint>
                  IF heading.level \notin DOMAIN s.nav THEN [s EXCEPT !.crashed = TRUE]
                  ELSE [s EXCEPT !.dom = SelAppend(s.dom, s.nav[heading.level], <<point>>),
                                 !.currentLevel = heading.level,
                                 !.playOrder = @ + 1]
             ELSE \* create new <navPoint> child
                  LET nav1 == ArraySet(s.nav, heading.level,
                                       Last(Find(s.dom, s.nav[s.currentLevel], "navPoint")))
                  IN  [s EXCEPT !.nav = nav1,
                                !.dom = SelAppend(s.dom,
                                           Last(Find(s.dom, nav1[s.currentLevel], "navPoint")),
                                           <<point>>),
                                !.currentLevel = heading.level,
                                !.playOrder = @ + 1]

RECURSIVE NcxRun(_, _, _)
NcxRun(s, hs, depth) ==
    IF hs = <<>> \/ s.crashed THEN s
    ELSE NcxRun(NcxHeading(s, Head(hs), depth), Tail(hs), depth)

buildToC_ncx(pgs, depth) == NcxRun(NcxInit, Stream(pgs), depth)

(***************************************************************************)
(* buildToC_xhtml.  A builder state is [dom, ol, currentLevel, crashed].   *)
(***************************************************************************)
XhtmlInit ==
    [dom |-> (<<>> :> Element("root")) @@ (<<1>> :> Element("nav"))
                @@ (<<1, 1>> :> Element("ol")),
     ol |-> (0 :> {<<1, 1>>}), currentLevel |-> 0, crashed |-> FALSE]

XhtmlHeading(s, heading, depth) ==
    IF ~(heading.level < depth) THEN s
    ELSE LET li == Node("li", heading.title, heading.href, indent(heading.level), 0)
         IN  IF heading.level <= s.currentLevel
             THEN \* re-use current or parent <ol>
                  IF heading.level \notin DOMAIN s.ol THEN [s EXCEPT !.crashed = TRUE]
                  ELSE [s EXCEPT !.dom = SelAppend(s.dom, s.ol[heading.level], <<li>>),
                                 !.currentLevel = heading.level]
             ELSE \* create new <ol> child
                  LET d1 == SelAppend(s.dom, Last(Find(s.dom, s.ol[s.currentLevel], "li")),
                                      <<Element("ol"), li>>)
                  IN  [s EXCEPT !.dom = d1,
                                !.ol = ArraySet(s.ol, heading.level,
                                                Last(Find(d1, s.ol[s.currentLevel], "ol"))),
                                !.currentLevel = heading.level]

RECURSIVE XhtmlRun(_, _, _)
XhtmlRun(s, hs, depth) ==
    IF hs = <<>> \/ s.crashed THEN s
    ELSE XhtmlRun(XhtmlHeading(s, Head(hs), depth), Tail(hs), depth)

buildToC_xhtml(pgs, depth) == XhtmlRun(XhtmlInit, Stream(pgs), depth)

(***************************************************************************)
(* The pages of the book.  A page is a tree of elements [tag, id, text]:   *)
(* id is the id attribute (Undefined when there is none), text the tokens  *)
(* of the element's own text (a token is a word or a blank " "), which     *)
(* precede the text of its children.                                       *)
(***************************************************************************)
NoElt == <<>>

\* elt.parent(): the empty selection above a top element
Parent(p) == IF Len(p) <= 1 THEN NoElt ELSE SubSeq(p, 1, Len(p) - 1)

\* elt.text(): the text of the element and of its descendants
RECURSIVE TextOfAll(_, _)
TextOf(doc, p) ==
    doc[p].text \o TextOfAll(doc, [i \in 1..NumChildren(doc, p) |-> p \o <<i>>])
TextOfAll(doc, ps) ==
    IF ps = <<>> THEN <<>> ELSE TextOf(doc, Head(ps)) \o TextOfAll(doc, Tail(ps))

\* p = elt.prev(); while (p.length) { txt += p.text(); p = p.prev(); }
RECURSIVE PrevText(_, _, _)
PrevText(doc, elt, n) ==
    IF n = 0 THEN <<>>
    ELSE TextOf(doc, [elt EXCEPT ![Len(elt)] = n]) \o PrevText(doc, elt, n - 1)

\* a loop that goes on to the parent whatever text came before
RECURSIVE HeadingIDLoop_anyText(_, _, _, _)
HeadingIDLoop_anyText(doc, elt, text, lastId) ==
    IF elt = NoElt THEN lastId
    ELSE IF Truthy(doc[elt].id) THEN doc[elt].id
    ELSE HeadingIDLoop_anyText(doc, Parent(elt),
                               text \o PrevText(doc, elt, elt[Len(elt)] - 1),
                               doc[elt].id)

\* while (elt.length && !txt.length) { ... }: lastId is the value of id
RECURSIVE HeadingIDLoop(_, _, _, _)
HeadingIDLoop(doc, elt, text, lastId) ==
    IF elt = NoElt \/ Len(text) # 0 THEN lastId
    ELSE IF Truthy(doc[elt].id) THEN doc[elt].id
    ELSE HeadingIDLoop(doc, Parent(elt),
                       text \o PrevText(doc, elt, elt[Len(elt)] - 1),
                       doc[elt].id)

getHeadingID(doc, elt) == HeadingIDLoop(doc, elt, <<>>, "")

HeadingTags == {"h1", "h2", "h3", "h4", "h5", "h6"}

\* parseInt(element.tagName.substr(1), 10)
HeadingRank == [h1 |-> 1, h2 |-> 2, h3 |-> 3, h4 |-> 4, h5 |-> 5, h6 |-> 6]

\* $('h1, h2, h3, h4, h5, h6'): the heading elements in document order
HeadingElts(doc) == InDocOrder({p \in DOMAIN doc : doc[p].tag \in HeadingTags})

\* .replace(/^\s+|\s+$/g, '').replace(/\s+/g, ' ')
RECURSIVE TrimLeft(_)
TrimLeft(ts) == IF ts # <<>> /\ Head(ts) = " " THEN TrimLeft(Tail(ts)) ELSE ts

RECURSIVE TrimRight(_)
TrimRight(ts) ==
    IF ts # <<>> /\ ts[Len(ts)] = " " THEN TrimRight(SubSeq(ts, 1, Len(ts) - 1)) ELSE ts

RECURSIVE Collapse(_)
Collapse(ts) ==
    IF Len(ts) < 2 THEN ts
    ELSE IF ts[1] = " " /\ ts[2] = " " THEN Collapse(Tail(ts))
    ELSE <<Head(ts)>> \o Collapse(Tail(ts))

RECURSIVE Join(_)
Join(ts) == IF ts = <<>> THEN "" ELSE Head(ts) \o Join(Tail(ts))

NormalTitle(ts) == Join(Collapse(TrimRight(TrimLeft(ts))))

\* a link rule that gives the page href to every heading without an id
HeadingHref_anyIndex(hid, href, index) ==
    IF Truthy(hid) THEN href \o "#" \o hid ELSE href

\* h.href: the anchor, the page for the first heading, or nothing
HeadingHref(hid, href, index) ==
    IF Truthy(hid) THEN href \o "#" \o hid
    ELSE IF index = 0 THEN href
    ELSE Undefined

\* a filter that forgets the keepAllHeadings flag
KeepHeading_all(h, keepAllHeadings) == TRUE

\* if (h.href || keepAllHeadings)
KeepHeading(h, keepAllHeadings) == Truthy(h.href) \/ keepAllHeadings

\* the heading of the index-th heading element elt of the page href
ParseHeading(doc, href, index, elt) ==
    [level |-> HeadingRank[doc[elt].tag] - 1,
     title |-> NormalTitle(TextOf(doc, elt)),
     href |-> HeadingHref(getHeadingID(doc, elt), href, index)]

\* the headings of one page: what the .each loop pushes
PageHeadings(doc, href, keepAllHeadings) ==
    LET es == HeadingElts(doc)
        hs == [k \in 1..Len(es) |-> ParseHeading(doc, href, k - 1, es[k])]
    IN  SelectSeq(hs, LAMBDA h : KeepHeading(h, keepAllHeadings))

\* parseHeadingsSync(basedir, hrefs, keepAllHeadings), fs the pages of basedir
parseHeadingsSync(fs, hrefs, keepAllHeadings) ==
    [i \in 1..Len(hrefs) |->
        [href |-> hrefs[i],
         headings |-> PageHeadings(fs[hrefs[i]], hrefs[i], keepAllHeadings)]]

(***************************************************************************)
(* buildToC(config, format, pages) as a function: the output and whether   *)
(* the builder threw.                                                      *)
(***************************************************************************)
buildToC(cfg, format, pgs) ==
    LET f == IF Truthy(format) THEN format ELSE cfg.format
    IN  IF f = "txt"
        THEN [format |-> f, body |-> buildToC_txt(pgs, cfg.depth), crashed |-> FALSE]
        ELSE IF f = "json"
        THEN LET r == buildToC_json(pgs, cfg.depth, cfg.strict)
             IN  [format |-> f, body |-> r.toc, crashed |-> r.crashed]
        ELSE IF f = "ncx"
        THEN LET r == buildToC_ncx(pgs, cfg.depth)
             IN  [format |-> f, body |-> r.dom, crashed |-> r.crashed]
        ELSE IF f = "xhtml"
        THEN LET r == buildToC_xhtml(pgs, cfg.depth)
             IN  [format |-> f, body |-> r.dom, crashed |-> r.crashed]
        ELSE [format |-> f, body |-> <<>>, crashed |-> FALSE]

(***************************************************************************)
(* The package document: zeroPadding and buildOPF_manifest_spine.          *)
(***************************************************************************)
\* while (str.length < digits) { str = '0' + str; }
RECURSIVE PadLeft(_, _)
PadLeft(str, digits) == IF Len(str) < digits THEN PadLeft("0" \o str, digits) ELSE str

zeroPadding(prefix, number, digits) == prefix \o PadLeft(ToString(number + 1), digits)

\* spine.indexOf(href), 0-based, -1 when href is not in the spine
indexOf(seq, x) ==
    IF \E i \in 1..Len(seq) : seq[i] = x
    THEN (CHOOSE i \in 1..Len(seq) : seq[i] = x /\ \A j \in 1..(i - 1) : seq[j] # x) - 1
    ELSE -1

\* mime.lookup(href), by the extension of the file
MimeTypes ==
    [ncx |-> "application/x-dtbncx+xml", opf |-> "application/oebps-package+xml",
     xhtml |-> "application/xhtml+xml", html |-> "text/html", png |-> "image/png"]

Extension ==
    ("toc.ncx" :> "ncx") @@ ("content.opf" :> "opf") @@ ("toc.xhtml" :> "xhtml")
    @@ ("cover.png" :> "png")

lookup(href) == IF href \in DOMAIN Extension THEN MimeTypes[Extension[href]] ELSE MimeTypes.html

\* files.length.toString().length
Digits(fileList) == Len(ToString(Len(fileList)))

\* the id of the file href, the index-th of the files; '' when it has none
ItemId(href, index, spine, digits) ==
    IF indexOf(spine, href) >= 0 THEN zeroPadding("page_", indexOf(spine, href), digits)
    ELSE IF lookup(href) = MimeTypes.ncx THEN "ncx"
    ELSE IF lookup(href) # MimeTypes.opf THEN zeroPadding("res_", index, digits)
    ELSE ""

\* the <item> of a file; rank and number give the place of its text in
\* items.sort(): ncx, then page_, then res_, each by its padded number
Item(href, index, spine, digits) ==
    [id |-> ItemId(href, index, spine, digits),
     type |-> lookup(href),
     href |-> href,
     nav |-> href = "toc.xhtml",
     rank |-> IF indexOf(spine, href) >= 0 THEN 2
              ELSE IF lookup(href) = MimeTypes.ncx THEN 1 ELSE 3,
     number |-> IF indexOf(spine, href) >= 0 THEN indexOf(spine, href) + 1
                ELSE IF lookup(href) = MimeTypes.ncx THEN 0 ELSE index + 1]

\* items.sort()
RECURSIVE SortItems(_)
SortItems(items) ==
    IF items = <<>> THEN <<>>
    ELSE LET before(a, b) == a.rank < b.rank \/ (a.rank = b.rank /\ a.number <= b.number)
             k == CHOOSE i \in 1..Len(items) : \A j \in 1..Len(items) : before(items[i], items[j])
         IN  <<items[k]>> \o SortItems(SubSeq(items, 1, k - 1) \o SubSeq(items, k + 1, Len(items)))

\* the items pushed for the first n of the files
RECURSIVE ItemsOf(_, _, _)
ItemsOf(fileList, n, spine) ==
    IF n = 0 THEN <<>>
    ELSE LET it == Item(fileList[n], n - 1, spine, Digits(fileList))
         IN  ItemsOf(fileList, n - 1, spine) \o (IF it.id # "" THEN <<it>> ELSE <<>>)

\* the number of toc.ncx files among the first n files outside the spine
NcxCount(fileList, n, spine) ==
    Cardinality({i \in 1..n : /\ indexOf(spine, fileList[i]) < 0
                             /\ lookup(fileList[i]) = MimeTypes.ncx})

\* buildOPF_manifest_spine(basedir, spine, generatedFiles), found the files
\* findFilesSync(basedir) returns
buildOPF_manifest_spine(found, spine, generatedFiles) ==
    LET fileList == found \o generatedFiles
        digits == Digits(fileList)
    IN  [manifest |-> SortItems(ItemsOf(fileList, Len(fileList), spine)),
         toc |-> NcxCount(fileList, Len(fileList), spine) = 1,
         several |-> NcxCount(fileList, Len(fileList), spine) > 1,
         itemrefs |-> [i \in 1..Len(spine) |-> zeroPadding("page_", i - 1, digits)]]

(***************************************************************************)
(* State.                                                                  *)
(***************************************************************************)
VARIABLES
    files,         \* the pages under basedir: href -> tree of elements
    headings,      \* parseHeadingsSync: the headings of the page being read
    pageNo,        \* parseHeadingsSync: the index of the page being read
    eltNo,         \* parseHeadingsSync: the heading elements read of the page
    id,            \* parseHeadingsSync: the last result of getHeadingID
    config,        \* spine, depth, strict, format, keepAllHeadings
    pages,         \* the pages value handed to buildToC
    pc,            \* where the program is
    cursor,        \* the index in Stream(pages) of the next heading
    txt,           \* buildToC_txt: the text so far
    toc,           \* buildToC_json: the tree
    current,       \* buildToC_json: the insertion point (a path of toc)
    currentLevel,  \* buildToC_json, _ncx, _xhtml
    created,       \* history: the entries pushed to toc
    dom,           \* buildToC_ncx, _xhtml: the cheerio document
    nav,           \* buildToC_ncx: the open <navPoint> of each level
    ol,            \* buildToC_xhtml: the open <ol> of each level
    playOrder,     \* buildToC_ncx
    branch,        \* the branch the last heading took
    diag,          \* what console.error has written
    output,        \* what buildToC returned
    previous,      \* how the calls of buildToC before this one ended
    found,         \* findFilesSync(basedir): the files of the base directory
    archive,       \* makeEPUB: the entries appended to the archive
    tocFiles,      \* makeEPUB: the generated index files
    items,         \* buildOPF_manifest_spine: the items pushed
    opf            \* what buildOPF_manifest_spine returned

parserVars == <<files, headings, pageNo, eltNo, id>>

builderVars == <<cursor, txt, toc, current, currentLevel, created, dom, nav, ol,
                 playOrder, branch, diag, output>>

epubVars == <<found, archive, tocFiles, items, opf>>

vars == <<files, headings, pageNo, eltNo, id, config, pages, pc, cursor, txt,
          toc, current, currentLevel, created, dom, nav, ol, playOrder, branch,
          diag, output, previous, found, archive, tocFiles, items, opf>>

(***************************************************************************)
(* The inputs of buildToC(config, format, pages).                          *)
(***************************************************************************)
PageHref(i) ==
    IF i = 1 THEN "A.html" ELSE IF i = 2 THEN "B.html"
    ELSE "p" \o ToString(i) \o ".html"

Title(k) == "T" \o ToString(k)

LevelSeqs == UNION {[1..n -> 0..MaxLevel] : n \in 0..MaxHeadings}

\* the headings lv, spread evenly over n pages; with anchored every heading
\* has an id of its own, without none has and only the first heading of a
\* page is linked (to the page)
PagesOf(lv, n, anchored) ==
    LET sz == (Len(lv) + n - 1) \div n
        hd(k, i) == [level |-> lv[k], title |-> Title(k),
                     href |-> IF anchored THEN PageHref(i) \o "#a" \o ToString(k)
                              ELSE IF k = (i - 1) * sz + 1 THEN PageHref(i)
                              ELSE Undefined]
    IN  [i \in 1..n |->
           [href |-> PageHref(i),
            headings |-> [j \in 1..(IF i * sz <= Len(lv) THEN sz
                                    ELSE IF (i - 1) * sz >= Len(lv) THEN 0
                                    ELSE Len(lv) - (i - 1) * sz) |->
                            hd((i - 1) * sz + j, i)]]]

Formats == {"txt", "json", "ncx", "xhtml", "pdf"}

\* the builders' variables before buildToC runs
BuilderStart ==
    /\ cursor = 1
    /\ txt = <<>>
    /\ toc = EmptyToc
    /\ current = <<>>
    /\ currentLevel = 0
    /\ created = <<>>
    /\ dom = <<>>
    /\ nav = <<>>
    /\ ol = <<>>
    /\ playOrder = 1
    /\ branch = "none"
    /\ diag = <<>>
    /\ output = Undefined
    /\ previous = <<>>

\* makeEPUB's variables before makeEPUB runs
EpubStart ==
    /\ archive = <<>>
    /\ tocFiles = <<>>
    /\ items = <<>>
    /\ opf = Undefined

Init ==
    /\ \E lv \in LevelSeqs, n \in 1..MaxPages, anchored \in BOOLEAN,
          f \in Formats, d \in {SmallDepth, DefaultDepth}, st \in BOOLEAN :
          /\ (st => f = "json")
          /\ config = [spine |-> [i \in 1..n |-> PageHref(i)], depth |-> d,
                       strict |-> st, format |-> f, keepAllHeadings |-> ~anchored]
          /\ pages = PagesOf(lv, n, anchored)
    /\ pc = "buildToC"
    /\ BuilderStart
    /\ EpubStart
    /\ found = <<>>
    /\ files = <<>>
    /\ headings = <<>>
    /\ pageNo = 1
    /\ eltNo = 0
    /\ id = ""

(***************************************************************************)
(* buildToC: the switch, then one step per heading, then the return.       *)
(***************************************************************************)
\* a switch over builders that keep currentLevel and playOrder between calls
BuildToC_staleLocals ==
    /\ UNCHANGED parserVars
    /\ UNCHANGED <<previous, epubVars>>
    /\ pc = "buildToC"
    /\ toc' = JsonInit.toc
    /\ current' = JsonInit.current
    /\ txt' = <<>>
    /\ dom' = IF config.format = "ncx" THEN NcxInit.dom
              ELSE IF config.format = "xhtml" THEN XhtmlInit.dom ELSE dom
    /\ nav' = IF config.format = "ncx" THEN NcxInit.nav ELSE nav
    /\ ol' = IF config.format = "xhtml" THEN XhtmlInit.ol ELSE ol
    /\ diag' = IF config.format \in {"txt", "json", "ncx", "xhtml"} THEN diag
               ELSE Append(diag, [msg |-> "unsupported output format",
                                  level |-> 0, title |-> config.format])
    /\ output' = IF config.format \in {"txt", "json", "ncx", "xhtml"} THEN output
                 ELSE [format |-> config.format, body |-> <<>>]
    /\ pc' = IF config.format \in {"txt", "json", "ncx", "xhtml"}
             THEN config.format ELSE "done"
    /\ UNCHANGED <<config, pages, cursor, created, branch, currentLevel, playOrder>>

\* a switch whose default case runs the txt builder
BuildToC_txtDefault ==
    /\ UNCHANGED parserVars
    /\ UNCHANGED <<previous, epubVars>>
    /\ pc = "buildToC"
    /\ toc' = JsonInit.toc
    /\ current' = JsonInit.current
    /\ txt' = <<>>
    /\ dom' = IF config.format = "ncx" THEN NcxInit.dom
              ELSE IF config.format = "xhtml" THEN XhtmlInit.dom ELSE dom
    /\ nav' = IF config.format = "ncx" THEN NcxInit.nav ELSE nav
    /\ ol' = IF config.format = "xhtml" THEN XhtmlInit.ol ELSE ol
    /\ currentLevel' = 0
    /\ playOrder' = NcxInit.playOrder
    /\ pc' = IF config.format \in {"json", "ncx", "xhtml"} THEN config.format ELSE "txt"
    /\ UNCHANGED <<config, pages, cursor, created, branch, diag, output>>

BuildToC ==
    /\ UNCHANGED parserVars
    /\ UNCHANGED <<previous, epubVars>>
    /\ pc = "buildToC"
    /\ \/ /\ config.format = "txt"
          /\ txt' = <<>>
          /\ UNCHANGED <<toc, current, currentLevel, dom, nav, ol, playOrder,
                         diag, output>>
       \/ /\ config.format = "json"
          /\ toc' = JsonInit.toc
          /\ current' = JsonInit.current
          /\ currentLevel' = JsonInit.currentLevel
          /\ UNCHANGED <<txt, dom, nav, ol, playOrder, diag, output>>
       \/ /\ config.format = "ncx"
          /\ dom' = NcxInit.dom
          /\ nav' = NcxInit.nav
          /\ currentLevel' = NcxInit.currentLevel
          /\ playOrder' = NcxInit.playOrder
          /\ UNCHANGED <<txt, toc, current, ol, diag, output>>
       \/ /\ config.format = "xhtml"
          /\ dom' = XhtmlInit.dom
          /\ ol' = XhtmlInit.ol
          /\ currentLevel' = XhtmlInit.currentLevel
          /\ UNCHANGED <<txt, toc, current, nav, playOrder, diag, output>>
       \/ /\ config.format \notin {"txt", "json", "ncx", "xhtml"}
          /\ diag' = Append(diag, [msg |-> "unsupported output format",
                                   level |-> 0, title |-> config.format])
          /\ output' = [format |-> config.format, body |-> <<>>]
          /\ UNCHANGED <<txt, toc, current, currentLevel, dom, nav, ol, playOrder>>
    /\ pc' = IF config.format \in {"txt", "json", "ncx", "xhtml"}
             THEN config.format ELSE "done"
    /\ UNCHANGED <<config, pages, cursor, created, branch>>

Txt_heading ==
    /\ UNCHANGED parserVars
    /\ UNCHANGED <<previous, epubVars>>
    /\ pc = "txt"
    /\ cursor <= Len(Stream(pages))
    /\ txt' = TxtHeading(txt, Stream(pages)[cursor], config.depth)
    /\ cursor' = cursor + 1
    /\ UNCHANGED <<config, pages, pc, toc, current, currentLevel, created,
                   dom, nav, ol, playOrder, branch, diag, output>>

Txt_return ==
    /\ UNCHANGED parserVars
    /\ UNCHANGED <<previous, epubVars>>
    /\ pc = "txt"
    /\ cursor > Len(Stream(pages))
    /\ output' = [format |-> "txt", body |-> txt]
    /\ pc' = "done"
    /\ UNCHANGED <<config, pages, cursor, txt, toc, current, currentLevel,
                   created, dom, nav, ol, playOrder, branch, diag>>

JsonState ==
    [toc |-> toc, current |-> current, currentLevel |-> currentLevel,
     diag |-> diag, branch |-> branch, created |-> created, crashed |-> FALSE]

Json_heading ==
    /\ UNCHANGED parserVars
    /\ UNCHANGED <<previous, epubVars>>
    /\ pc = "json"
    /\ cursor <= Len(Stream(pages))
    /\ LET r == JsonHeading(JsonState, Stream(pages)[cursor], config.depth, config.strict)
       IN  /\ toc' = r.toc
           /\ current' = r.current
           /\ currentLevel' = r.currentLevel
           /\ diag' = r.diag
           /\ branch' = r.branch
           /\ created' = r.created
           /\ pc' = IF r.crashed THEN "crashed" ELSE pc
    /\ cursor' = cursor + 1
    /\ UNCHANGED <<config, pages, txt, dom, nav, ol, playOrder, output>>

Json_return ==
    /\ UNCHANGED parserVars
    /\ UNCHANGED <<previous, epubVars>>
    /\ pc = "json"
    /\ cursor > Len(Stream(pages))
    /\ output' = [format |-> "json", body |-> toc]
    /\ pc' = "done"
    /\ UNCHANGED <<config, pages, cursor, txt, toc, current, currentLevel,
                   created, dom, nav, ol, playOrder, branch, diag>>

NcxState ==
    [dom |-> dom, nav |-> nav, currentLevel |-> currentLevel,
     playOrder |-> playOrder, crashed |-> FALSE]

Ncx_heading ==
    /\ UNCHANGED parserVars
    /\ UNCHANGED <<previous, epubVars>>
    /\ pc = "ncx"
    /\ cursor <= Len(Stream(pages))
    /\ LET r == NcxHeading(NcxState, Stream(pages)[cursor], config.depth)
       IN  /\ dom' = r.dom
           /\ nav' = r.nav
           /\ currentLevel' = r.currentLevel
           /\ playOrder' = r.playOrder
           /\ pc' = IF r.crashed THEN "crashed" ELSE pc
    /\ cursor' = cursor + 1
    /\ UNCHANGED <<config, pages, txt, toc, current, created, ol, branch,
                   diag, output>>

Ncx_return ==
    /\ UNCHANGED parserVars
    /\ UNCHANGED <<previous, epubVars>>
    /\ pc = "ncx"
    /\ cursor > Len(Stream(pages))
    /\ output' = [format |-> "ncx", body |-> dom]
    /\ pc' = "done"
    /\ UNCHANGED <<config, pages, cursor, txt, toc, current, currentLevel,
                   created, dom, nav, ol, playOrder, branch, diag>>

XhtmlState ==
    [dom |-> dom, ol |-> ol, currentLevel |-> currentLevel, crashed |-> FALSE]

Xhtml_heading ==
    /\ UNCHANGED parserVars
    /\ UNCHANGED <<previous, epubVars>>
    /\ pc = "xhtml"
    /\ cursor <= Len(Stream(pages))
    /\ LET r == XhtmlHeading(XhtmlState, Stream(pages)[cursor], config.depth)
       IN  /\ dom' = r.dom
           /\ ol' = r.ol
           /\ currentLevel' = r.currentLevel
           /\ pc' = IF r.crashed THEN "crashed" ELSE pc
    /\ cursor' = cursor + 1
    /\ UNCHANGED <<config, pages, txt, toc, current, created, nav, playOrder,
                   branch, diag, output>>

Xhtml_return ==
    /\ UNCHANGED parserVars
    /\ UNCHANGED <<previous, epubVars>>
    /\ pc = "xhtml"
    /\ cursor > Len(Stream(pages))
    /\ output' = [format |-> "xhtml", body |-> dom]
    /\ pc' = "done"
    /\ UNCHANGED <<config, pages, cursor, txt, toc, current, currentLevel,
                   created, dom, nav, ol, playOrder, branch, diag>>

Next ==
    \/ BuildToC
    \/ Txt_heading
    \/ Txt_return
    \/ Json_heading
    \/ Json_return
    \/ Ncx_heading
    \/ Ncx_return
    \/ Xhtml_heading
    \/ Xhtml_return

Spec == Init /\ [][Next]_vars

(***************************************************************************)
(* parseHeadingsSync, from the pages of a book.  The pages: every tree of  *)
(* up to MaxNodes elements in all over the MaxPages pages of the spine.    *)
(* The elements above the trees (html, body) carry no id.                  *)
(***************************************************************************)
MaxNodes == 3

Word(i, k) ==
    IF i = 1 /\ k = 1 THEN "Intro"
    ELSE IF i = 1 /\ k = 2 THEN "Background"
    ELSE IF i = 2 /\ k = 1 THEN "Conclusion"
    ELSE "w" \o ToString(i) \o ToString(k)

\* an element is a heading, a top heading with an id, a block without
\* text, a block with blank text or a block with an id
ElementKinds ==
    {[tag |-> t, id |-> Undefined, blank |-> TRUE] : t \in {"h1", "h2"}}
    \cup {[tag |-> "h1", id |-> "a", blank |-> TRUE]}
    \cup {[tag |-> "div", id |-> Undefined, blank |-> b] : b \in BOOLEAN}
    \cup {[tag |-> "div", id |-> "a", blank |-> FALSE]}

\* the path of the element that follows the element p, at depth d
NextPath(p, d) ==
    IF d = Len(p) THEN p \o <<1>>
    ELSE [SubSeq(p, 1, d + 1) EXCEPT ![d + 1] = @ + 1]

\* the paths of the elements lo + 1 .. lo + k, a page, from their depths
RECURSIVE PathsOf(_, _, _)
PathsOf(dv, lo, k) ==
    IF k = 0 THEN <<>>
    ELSE IF k = 1 THEN <<(<<1>>)>>
    ELSE LET ps == PathsOf(dv, lo, k - 1) IN Append(ps, NextPath(ps[k - 1], dv[lo + k]))

\* the page i: the elements lo + 1 .. lo + k with depths dv and kinds kv
MakeDoc(i, lo, k, dv, kv) ==
    LET ps == PathsOf(dv, lo, k)
        elt(j) == [tag |-> kv[lo + j].tag, id |-> kv[lo + j].id,
                   text |-> IF kv[lo + j].tag \in HeadingTags THEN <<" ", Word(i, j), " ">>
                            ELSE IF kv[lo + j].blank THEN <<" ">> ELSE <<>>]
    IN  [p \in {ps[j] : j \in 1..k} |-> elt(CHOOSE j \in 1..k : ps[j] = p)]

\* the book of n pages: the elements 1 .. k in document order, pg their
\* pages, dv their depths, kv their kinds
MakeBook(n, k, pg, dv, kv) ==
    [h \in {PageHref(i) : i \in 1..n} |->
        LET i == CHOOSE x \in 1..n : PageHref(x) = h
        IN  MakeDoc(i, Cardinality({j \in 1..k : pg[j] < i}),
                    Cardinality({j \in 1..k : pg[j] = i}), dv, kv)]

InitParse ==
    /\ \E keep \in BOOLEAN :
          config = [spine |-> [i \in 1..MaxPages |-> PageHref(i)], depth |-> DefaultDepth,
                    strict |-> FALSE, format |-> "json", keepAllHeadings |-> keep]
    /\ \E k \in 0..MaxNodes :
          \E pg \in [1..k -> 1..MaxPages] :
             /\ \A j \in 1..(k - 1) : pg[j] <= pg[j + 1]
             /\ \E dv \in [1..k -> 0..(k - 1)] :
                   /\ \A j \in 1..k :
                         IF j = 1 \/ pg[j - 1] # pg[j] THEN dv[j] = 0
                         ELSE dv[j] <= dv[j - 1] + 1
                   /\ \E kv \in [1..k -> ElementKinds] :
                         files = MakeBook(MaxPages, k, pg, dv, kv)
    /\ pages = <<>>
    /\ pc = "parse"
    /\ BuilderStart
    /\ EpubStart
    /\ found = config.spine
    /\ headings = <<>>
    /\ pageNo = 1
    /\ eltNo = 0
    /\ id = ""

\* the page being read
Href == config.spine[pageNo]

\* $('h1, h2, h3, h4, h5, h6').each(function(index, element) { ... })
Parse_heading ==
    /\ UNCHANGED <<previous, epubVars>>
    /\ pc = "parse"
    /\ pageNo <= Len(config.spine)
    /\ eltNo < Len(HeadingElts(files[Href]))
    /\ LET elt == HeadingElts(files[Href])[eltNo + 1]
           h == ParseHeading(files[Href], Href, eltNo, elt)
       IN  /\ id' = getHeadingID(files[Href], elt)
           /\ headings' = IF KeepHeading(h, config.keepAllHeadings)
                          THEN Append(headings, h) ELSE headings
    /\ eltNo' = eltNo + 1
    /\ UNCHANGED <<files, pageNo, config, pages, pc>>
    /\ UNCHANGED builderVars

\* pages.push({ href: href, headings: headings })
Parse_page ==
    /\ UNCHANGED <<previous, epubVars>>
    /\ pc = "parse"
    /\ pageNo <= Len(config.spine)
    /\ eltNo = Len(HeadingElts(files[Href]))
    /\ pages' = Append(pages, [href |-> Href, headings |-> headings])
    /\ headings' = <<>>
    /\ eltNo' = 0
    /\ pageNo' = pageNo + 1
    /\ UNCHANGED <<files, id, config, pc>>
    /\ UNCHANGED builderVars

\* return pages, to buildToC
Parse_return ==
    /\ UNCHANGED <<previous, epubVars>>
    /\ pc = "parse"
    /\ pageNo > Len(config.spine)
    /\ pc' = "buildToC"
    /\ UNCHANGED <<files, headings, pageNo, eltNo, id, config, pages>>
    /\ UNCHANGED builderVars

NextParse ==
    \/ Parse_heading
    \/ Parse_page
    \/ Parse_return
    \/ BuildToC
    \/ Json_heading
    \/ Json_return

SpecParse == InitParse /\ [][NextParse]_vars

(***************************************************************************)
(* makeEPUB, from a base directory: the pages of the spine, each a list of *)
(* up to MaxNodes headings in all, and any of the three index files.       *)
(***************************************************************************)
IndexFiles == <<"content.opf", "toc.ncx", "toc.xhtml">>

\* the headings of the pages of a book: h1, h2, h3, and h2 with an id
PageKinds ==
    {[tag |-> t, id |-> Undefined, blank |-> TRUE] : t \in {"h1", "h2", "h3"}}
    \cup {[tag |-> "h2", id |-> "a", blank |-> TRUE]}

\* var pages: not assigned yet.  The spine of a book has a page, so that
\* the value parseHeadingsSync returns is never the empty sequence
NoPages == <<>>

InitEPUB ==
    /\ \E keep \in BOOLEAN :
          config = [spine |-> [i \in 1..MaxPages |-> PageHref(i)], depth |-> DefaultDepth,
                    strict |-> FALSE, format |-> "txt", keepAllHeadings |-> keep]
    /\ \E k \in 0..MaxNodes :
          \E pg \in [1..k -> 1..MaxPages] :
             /\ \A j \in 1..(k - 1) : pg[j] <= pg[j + 1]
             /\ \E kv \in [1..k -> PageKinds] :
                   files = MakeBook(MaxPages, k, pg, [j \in 1..k |-> 0], kv)
    /\ \E present \in SUBSET {1, 2, 3} :
          found = config.spine \o SelectSeq(IndexFiles, LAMBDA f : indexOf(IndexFiles, f) + 1 \in present)
    /\ pages = NoPages
    /\ pc = "makeEPUB"
    /\ BuilderStart
    /\ EpubStart
    /\ headings = <<>>
    /\ pageNo = 1
    /\ eltNo = 0
    /\ id = ""

\* a check that never finds the file
fileExists_never(filename) == FALSE

\* fs.existsSync(path.resolve(config.basedir, filename))
fileExists(filename) == \E i \in 1..Len(found) : found[i] = filename

Entry(name, from, body) == [name |-> name, from |-> from, body |-> body]

\* archive.append of mimetype and META-INF/container.xml
Epub_container ==
    /\ pc = "makeEPUB"
    /\ archive' = <<Entry("mimetype", "generated", "application/epub+zip"),
                    Entry("META-INF/container.xml", "generated", "OPS/content.opf")>>
    /\ pc' = "tocEPUB3"
    /\ UNCHANGED <<config, pages, found, tocFiles, items, opf, previous>>
    /\ UNCHANGED parserVars
    /\ UNCHANGED builderVars

\* if (!fileExists('toc.xhtml')) { ... }
Epub_xhtml ==
    /\ pc = "tocEPUB3"
    /\ IF ~fileExists("toc.xhtml")
       THEN LET pgs == parseHeadingsSync(files, config.spine, config.keepAllHeadings)
                r == buildToC(config, "xhtml", pgs)
            IN  /\ tocFiles' = Append(tocFiles, "toc.xhtml")
                /\ pages' = pgs
                /\ archive' = IF r.crashed THEN archive
                              ELSE Append(archive, Entry("OPS/toc.xhtml", "generated", r.body))
                /\ pc' = IF r.crashed THEN "crashed" ELSE "tocEPUB2"
       ELSE /\ pc' = "tocEPUB2"
            /\ UNCHANGED <<tocFiles, pages, archive>>
    /\ UNCHANGED <<config, found, items, opf, previous>>
    /\ UNCHANGED parserVars
    /\ UNCHANGED builderVars

\* if (!fileExists('toc.ncx')) { ... }
Epub_ncx ==
    /\ pc = "tocEPUB2"
    /\ IF ~fileExists("toc.ncx")
       THEN LET pgs == IF pages # NoPages THEN pages
                       ELSE parseHeadingsSync(files, config.spine, config.keepAllHeadings)
                r == buildToC(config, "ncx", pgs)
            IN  /\ tocFiles' = Append(tocFiles, "toc.ncx")
                /\ pages' = pgs
                /\ archive' = IF r.crashed THEN archive
                              ELSE Append(archive, Entry("OPS/toc.ncx", "generated", r.body))
                /\ pc' = IF r.crashed THEN "crashed" ELSE "rootfile"
       ELSE /\ pc' = "rootfile"
            /\ UNCHANGED <<tocFiles, pages, archive>>
    /\ UNCHANGED <<config, found, items, opf, previous>>
    /\ UNCHANGED parserVars
    /\ UNCHANGED builderVars

\* if (!fileExists('content.opf')) { ... }
Epub_opf ==
    /\ pc = "rootfile"
    /\ IF ~fileExists("content.opf")
       THEN LET r == buildOPF_manifest_spine(found, config.spine, tocFiles)
            IN  /\ opf' = r
                /\ archive' = Append(archive, Entry("OPS/content.opf", "generated", r))
       ELSE UNCHANGED <<opf, archive>>
    /\ pc' = "content"
    /\ UNCHANGED <<config, pages, found, tocFiles, items, previous>>
    /\ UNCHANGED parserVars
    /\ UNCHANGED builderVars

\* archive.bulk of the base directory under OPS, and archive.finalize()
Epub_content ==
    /\ pc = "content"
    /\ archive' = archive \o [i \in 1..Len(found) |->
                                Entry("OPS/" \o found[i], "basedir", found[i])]
    /\ pc' = "finalized"
    /\ UNCHANGED <<config, pages, found, tocFiles, items, opf, previous>>
    /\ UNCHANGED parserVars
    /\ UNCHANGED builderVars

NextEPUB ==
    \/ Epub_container
    \/ Epub_xhtml
    \/ Epub_ncx
    \/ Epub_opf
    \/ Epub_content

SpecEPUB == InitEPUB /\ [][NextEPUB]_vars

(***************************************************************************)
(* buildToC called twice with the same config, format and pages.           *)
(***************************************************************************)
InitTwice ==
    /\ \E lv \in LevelSeqs, anchored \in BOOLEAN, f \in Formats,
          d \in {SmallDepth, DefaultDepth}, st \in BOOLEAN :
          /\ (st => f = "json")
          /\ config = [spine |-> [i \in 1..MaxPages |-> PageHref(i)], depth |-> d,
                       strict |-> st, format |-> f, keepAllHeadings |-> ~anchored]
          /\ pages = PagesOf(lv, MaxPages, anchored)
    /\ pc = "buildToC"
    /\ BuilderStart
    /\ EpubStart
    /\ found = <<>>
    /\ files = <<>>
    /\ headings = <<>>
    /\ pageNo = 1
    /\ eltNo = 0
    /\ id = ""

\* the second call: the first one has returned or thrown; the loops of the
\* builders start again at the first heading
BuildToC_again ==
    /\ pc \in {"done", "crashed"}
    /\ previous = <<>>
    /\ previous' = <<[end |-> pc, output |-> output]>>
    /\ output' = Undefined
    /\ cursor' = 1
    /\ created' = <<>>
    /\ branch' = "none"
    /\ pc' = "buildToC"
    /\ UNCHANGED <<config, pages, txt, toc, current, currentLevel, dom, nav, ol,
                   playOrder, diag>>
    /\ UNCHANGED parserVars
    /\ UNCHANGED epubVars

NextTwice ==
    \/ BuildToC
    \/ Txt_heading
    \/ Txt_return
    \/ Json_heading
    \/ Json_return
    \/ Ncx_heading
    \/ Ncx_return
    \/ Xhtml_heading
    \/ Xhtml_return
    \/ BuildToC_again

SpecTwice == InitTwice /\ [][NextTwice]_vars

(***************************************************************************)
(* buildOPF_manifest_spine(basedir, spine, generatedFiles), for any files  *)
(* of the base directory and any spine of up to MaxPages entries.          *)
(***************************************************************************)
\* the files a base directory may hold
Universe ==
    [i \in 1..MaxPages |-> PageHref(i)] \o <<"content.opf", "cover.png", "toc.ncx", "toc.xhtml">>

Spines == UNION {[1..n -> {PageHref(i) : i \in 1..MaxPages}] : n \in 1..MaxPages}

InitOPF ==
    /\ \E sp \in Spines :
          config = [spine |-> sp, depth |-> DefaultDepth, strict |-> FALSE,
                    format |-> "txt", keepAllHeadings |-> FALSE]
    /\ \E present \in SUBSET (1..Len(Universe)) :
          /\ found = SelectSeq(Universe, LAMBDA f : indexOf(Universe, f) + 1 \in present)
          /\ \E gen \in SUBSET {"toc.xhtml", "toc.ncx"} :
                /\ \A f \in gen : ~fileExists(f)
                /\ tocFiles = SelectSeq(<<"toc.xhtml", "toc.ncx">>, LAMBDA f : f \in gen)
    /\ pages = NoPages
    /\ pc = "buildOPF"
    /\ BuilderStart
    /\ archive = <<>>
    /\ items = <<>>
    /\ opf = Undefined
    /\ files = <<>>
    /\ headings = <<>>
    /\ pageNo = 1
    /\ eltNo = 0
    /\ id = ""

\* files.forEach(function(href, index) { ... })
Opf_file ==
    /\ pc = "buildOPF"
    /\ cursor <= Len(found \o tocFiles)
    /\ LET fileList == found \o tocFiles
           it == Item(fileList[cursor], cursor - 1, config.spine, Digits(fileList))
       IN  items' = IF it.id # "" THEN Append(items, it) ELSE items
    /\ cursor' = cursor + 1
    /\ UNCHANGED <<config, pages, pc, found, archive, tocFiles, opf, previous>>
    /\ UNCHANGED <<txt, toc, current, currentLevel, created, dom, nav, ol,
                   playOrder, branch, diag, output>>
    /\ UNCHANGED parserVars

\* the manifest, the spine and the return
Opf_return ==
    /\ pc = "buildOPF"
    /\ cursor > Len(found \o tocFiles)
    /\ LET fileList == found \o tocFiles
           ncx == NcxCount(fileList, Len(fileList), config.spine)
       IN  /\ opf' = [manifest |-> SortItems(items),
                      toc |-> ncx = 1,
                      several |-> ncx > 1,
                      itemrefs |-> [i \in 1..Len(config.spine) |->
                                      zeroPadding("page_", i - 1, Digits(fileList))]]
           /\ diag' = IF ncx > 1
                      THEN Append(diag, [msg |-> "several NCX files have been found.",
                                         level |-> 0, title |-> ""])
                      ELSE diag
    /\ pc' = "returned"
    /\ UNCHANGED <<config, pages, found, archive, tocFiles, items, previous>>
    /\ UNCHANGED <<cursor, txt, toc, current, currentLevel, created, dom, nav, ol,
                   playOrder, branch, output>>
    /\ UNCHANGED parserVars

NextOPF ==
    \/ Opf_file
    \/ Opf_return

SpecOPF == InitOPF /\ [][NextOPF]_vars

(***************************************************************************)
(* Properties.                                                             *)
(***************************************************************************)
Headings == Stream(pages)

\* a step of buildToC_json that processes the heading at the cursor
JsonStep == pc = "json" /\ cursor' = cursor + 1

\* the titles of a tree, depth first and in order, placeholders left out
TocTitles(t) ==
    LET ps == InDocOrder(DOMAIN t \ {<<>>})
    IN  SelectSeq([i \in 1..Len(ps) |-> t[ps[i]].title], LAMBDA x : x # Undefined)

\* the titles of the headings with level < depth
RECURSIVE FilteredTitles(_, _)
FilteredTitles(hs, depth) ==
    IF hs = <<>> THEN <<>>
    ELSE (IF Head(hs).level < depth THEN <<Head(hs).title>> ELSE <<>>)
         \o FilteredTitles(Tail(hs), depth)

\* the same, less the headings strict mode discards: those more than one
\* level below the last heading kept (cl is its level, 0 at the start)
RECURSIVE KeptTitles(_, _, _, _)
KeptTitles(hs, cl, depth, strict) ==
    IF hs = <<>> THEN <<>>
    ELSE IF ~(Head(hs).level < depth) THEN KeptTitles(Tail(hs), cl, depth, strict)
    ELSE IF strict /\ Head(hs).level > cl + 1 THEN KeptTitles(Tail(hs), cl, depth, strict)
    ELSE <<Head(hs).title>> \o KeptTitles(Tail(hs), Head(hs).level, depth, strict)

\* the entry pushed last at a level
MostRecent(cr, level) ==
    LET idx == {i \in 1..Len(cr) : cr[i].level = level}
    IN  cr[CHOOSE i \in idx : \A j \in idx : j <= i].path

Ones(n) == [i \in 1..n |-> 1]

\* C1 as claimed: in strict and in lenient mode, the titles of the returned
\* tree, depth first, are the titles of the headings with level < depth.
C1_AllTitlesInOrder ==
    (config.format = "json" /\ pc = "done") =>
        TocTitles(output.body) = FilteredTitles(Headings, config.depth)

\* C1 amended: after every heading buildToC_json has processed, and at its
\* return, the titles of the tree, depth first and placeholders left out, are
\* the titles of the headings with level < depth in their order, less, in
\* strict mode, the headings discarded as non-contiguous.
C1_KeptTitlesInOrder ==
    (config.format = "json" /\ pc \in {"json", "done"}) =>
        /\ TocTitles(toc) = KeptTitles(SubSeq(Headings, 1, cursor - 1), 0,
                                       config.depth, config.strict)
        /\ pc = "done" => output.body = toc

C1_Witness ==
    /\ config.format = "json" /\ pc = "done" /\ ~config.strict
    /\ Len(diag) > 0
    /\ Len(TocTitles(output.body)) >= 3
    /\ \E p \in DOMAIN toc : Len(p) = 2 /\ toc[p].title = Undefined

(***************************************************************************)
(* The tree each view shows: its entries in document order, each with its  *)
(* depth (the indentation of a line, the nesting of an entry, of an <li>,  *)
(* of a <navPoint>).  Placeholders are left out.                           *)
(***************************************************************************)
TreeOfTxt(text) ==
    [i \in 1..Len(text) |->
        [title |-> text[i].title,
         depth |-> (text[i].indent - IndentBase) \div IndentStep]]

TreeOfToc(t) ==
    LET ps == SelectSeq(InDocOrder(DOMAIN t \ {<<>>}),
                        LAMBDA p : t[p].title # Undefined)
    IN  [i \in 1..Len(ps) |-> [title |-> t[ps[i]].title, depth |-> Len(ps[i]) - 1]]

TreeOfDom(d, tag) ==
    LET ps == InDocOrder({p \in DOMAIN d : d[p].tag = tag})
        up(p) == {q \in DOMAIN d : q # p /\ IsPrefix(q, p) /\ d[q].tag = tag}
    IN  [i \in 1..Len(ps) |-> [title |-> d[ps[i]].title,
                               depth |-> Cardinality(up(ps[i]))]]

\* C2 as claimed: the four views of one heading stream show the same tree
\* (the same entries in the same order at the same depths), and none fails.
C2_ViewsShowOneTree ==
    (pc = "done" /\ config.format \in {"txt", "json", "ncx", "xhtml"}) =>
        LET j == buildToC_json(pages, config.depth, config.strict)
            n == buildToC_ncx(pages, config.depth)
            x == buildToC_xhtml(pages, config.depth)
            t == TreeOfTxt(buildToC_txt(pages, config.depth))
        IN  /\ ~j.crashed /\ ~n.crashed /\ ~x.crashed
            /\ TreeOfToc(j.toc) = t
            /\ TreeOfDom(n.dom, "navPoint") = t
            /\ TreeOfDom(x.dom, "li") = t
            /\ CASE config.format = "txt" -> TreeOfTxt(output.body) = t
                 [] config.format = "json" -> TreeOfToc(output.body) = t
                 [] config.format = "ncx" -> TreeOfDom(output.body, "navPoint") = t
                 [] config.format = "xhtml" -> TreeOfDom(output.body, "li") = t

\* C4 as claimed: a lenient jump from currentLevel C to level L synthesizes
\* exactly L - C - 1 placeholders, in every builder state.
C4_PlaceholdersEverywhere ==
    [][(JsonStep /\ branch' = "jump" /\ ~config.strict) =>
         Cardinality({q \in DOMAIN toc' \ DOMAIN toc : toc'[q].title = Undefined})
             = Headings[cursor].level - currentLevel - 1]_vars

\* C4 amended: a lenient jump from currentLevel C to level L, once an entry
\* has been placed, synthesizes exactly L - C - 1 placeholders (no title, no
\* link), nested one inside the other under the last entry emitted at level
\* C, which had no children, and the heading is the only child of the
\* deepest placeholder; on the empty tree of the initial state (C = 0) it
\* synthesizes L placeholders, one for each of the levels 0..L-1, nested
\* from the top level.  Nothing else changes in the tree.
C4_Placeholders ==
    [][(JsonStep /\ branch' = "jump" /\ ~config.strict) =>
         LET h == Headings[cursor]
             empty == DOMAIN toc = {<<>>}
             base == IF empty THEN <<>> ELSE MostRecent(created, currentLevel)
             k == IF empty THEN h.level ELSE h.level - currentLevel - 1
         IN  /\ k >= 1
             /\ Children(toc, base) = {}
             /\ DOMAIN toc' = DOMAIN toc \cup {base \o Ones(i) : i \in 1..(k + 1)}
             /\ \A i \in 1..k :
                    toc'[base \o Ones(i)] = [Placeholder EXCEPT !.children = TRUE]
             /\ toc'[base \o Ones(k + 1)] =
                    [title |-> h.title, href |-> h.href, children |-> FALSE]
             /\ \A q \in DOMAIN toc :
                    toc'[q] = IF q = base THEN [toc[q] EXCEPT !.children = TRUE]
                              ELSE toc[q]
             /\ current' = base \o Ones(k)
             /\ currentLevel' = h.level
             /\ pc' = "json"]_vars

\* levels [0, 2]: one placeholder at level 1, its only child the heading
C4_Witness ==
    /\ pc = "json" /\ branch = "jump" /\ ~config.strict
    /\ DOMAIN toc = {<<>>, <<1>>, <<1, 1>>, <<1, 1, 1>>}
    /\ toc[<<1>>].title # Undefined
    /\ toc[<<1, 1>>].title = Undefined
    /\ toc[<<1, 1, 1>>].title # Undefined

\* the stream without its k-th heading
WithoutHeading(hs, k) == SubSeq(hs, 1, k - 1) \o SubSeq(hs, k + 1, Len(hs))

\* C5: in strict mode a heading with level > currentLevel + 1 leaves the
\* tree, the insertion point and currentLevel as they were, and the run
\* ends as the run on the stream without that heading does (the same tree,
\* or the same failure).
C5_StrictDropsLeaveNoTrace ==
    [][(JsonStep /\ branch' = "jump" /\ config.strict) =>
         LET with == JsonRun(JsonInit, Headings, config.depth, TRUE)
             without == JsonRun(JsonInit, WithoutHeading(Headings, cursor),
                                config.depth, TRUE)
         IN  /\ toc' = toc
             /\ current' = current
             /\ currentLevel' = currentLevel
             /\ pc' = "json"
             /\ with.toc = without.toc
             /\ with.crashed = without.crashed]_vars

\* a strict run that has dropped a heading and placed two others
C5_Witness ==
    /\ config.format = "json" /\ config.strict /\ pc = "done"
    /\ Len(diag) >= 1
    /\ Cardinality(DOMAIN toc) >= 3

\* C6: a heading of level L < currentLevel becomes the last child of the
\* entry pushed last at level L - 1 (the last top-level entry when L = 0),
\* at depth L, and every entry there was stays as it is.
C6_AscendToAncestor ==
    [][(JsonStep /\ branch' = "ascend") =>
         LET h == Headings[cursor]
             parent == IF h.level = 0 THEN <<>> ELSE MostRecent(created, h.level - 1)
             new == parent \o <<NumChildren(toc, parent) + 1>>
         IN  /\ pc' = "json"
             /\ NumChildren(toc, parent) >= 1
             /\ DOMAIN toc' = DOMAIN toc \cup {new}
             /\ new \notin DOMAIN toc
             /\ Len(new) = h.level + 1
             /\ toc'[new] = [title |-> h.title, href |-> h.href, children |-> FALSE]
             /\ \A q \in DOMAIN toc : toc'[q] = toc[q]
             /\ currentLevel' = h.level]_vars

\* levels [0, 1, 2, 1]: the second level-1 heading is the second child of
\* the level-0 entry
C6_Witness ==
    /\ pc = "json" /\ branch = "ascend" /\ currentLevel = 1
    /\ {<<1>>, <<1, 1>>, <<1, 1, 1>>, <<1, 2>>} \subseteq DOMAIN toc
    /\ \A p \in DOMAIN toc : toc[p].title # Undefined \/ p = <<>>
    /\ Len(Headings) = 4

\* levels never decrease and rise by at most one between two headings
Smooth(hs) ==
    \A i \in 1..(Len(hs) - 1) :
        hs[i].level <= hs[i + 1].level /\ hs[i + 1].level <= hs[i].level + 1

\* C7 as claimed: on such a stream buildToC_json never takes the
\* non-contiguous branch, whatever the level of the first heading.
C7_NoJumpOnSmooth ==
    (config.format = "json" /\ Smooth(Headings)) => branch # "jump"

\* C7 amended: on such a stream whose first heading has level 0 or 1 (at
\* most one above the initial currentLevel 0), buildToC_json never takes
\* the non-contiguous branch.
C7_NoJumpOnSmoothFromTop ==
    (config.format = "json" /\ Smooth(Headings)
        /\ (Headings # <<>> => Headings[1].level <= 1)) => branch # "jump"

\* a run on levels 0, 1, 2 (with repeats) that has reached level 2
C7_Witness ==
    /\ config.format = "json" /\ pc = "done" /\ Smooth(Headings)
    /\ Len(Headings) >= 3 /\ Headings[1].level = 0
    /\ currentLevel = 2
    /\ branch = "descend"

\* a step of a builder of a tree on the heading at the cursor
TreeStep == pc \in {"json", "ncx", "xhtml"} /\ cursor' = cursor + 1

\* C10 as claimed: in each run that builds a tree, a heading with level <
\* depth and level > currentLevel + 1 adds exactly one diagnostic, any other
\* heading none, and a run that has emitted a diagnostic goes on to process
\* the headings that follow.
C10_OneDiagnosticPerJump ==
    [][TreeStep =>
         LET h == Headings[cursor]
         IN  /\ diag' # diag <=> (h.level < config.depth /\ h.level > currentLevel + 1)
             /\ Len(diag') <= Len(diag) + 1
             /\ diag # <<>> => pc' = pc]_vars

(***************************************************************************)
(* Properties of parseHeadingsSync, on SpecParse.                          *)
(***************************************************************************)
\* the heading element read last, once one of the page has been read
Reading == pc = "parse" /\ eltNo > 0

LastElt == HeadingElts(files[Href])[eltNo]

\* the elements of the chain from elt to the root, by their depth
ChainAt(elt, k) == SubSeq(elt, 1, k)

\* e has a preceding sibling with non-empty text
HasLeadingText(doc, e) ==
    \E n \in 1..(e[Len(e)] - 1) : TextOf(doc, [e EXCEPT ![Len(e)] = n]) # <<>>

\* the depths of the chain elements that carry an identifier
Carriers(doc, elt) == {k \in 1..Len(elt) : Truthy(doc[ChainAt(elt, k)].id)}

Nearest(doc, elt) == CHOOSE k \in Carriers(doc, elt) : \A m \in Carriers(doc, elt) : m <= k

\* every element strictly below the nearest carrier is free of leading text
Resolves(doc, elt) ==
    /\ Carriers(doc, elt) # {}
    /\ \A m \in (Nearest(doc, elt) + 1)..Len(elt) : ~HasLeadingText(doc, ChainAt(elt, m))

LinkOf(href, elt, first) ==
    LET anchor == getHeadingID(files[href], elt)
    IN  IF Truthy(anchor) THEN href \o "#" \o anchor
        ELSE IF first THEN href
        ELSE Undefined

\* hs is the stream of the first n heading elements of the page href: the
\* kept ones, each once, in document order, with their links
IsStreamOf(hs, href, n) ==
    LET doc == files[href]
        es == HeadingElts(doc)
        links == [k \in 1..n |-> LinkOf(href, es[k], k = 1)]
        kept == SelectSeq([k \in 1..n |-> k],
                          LAMBDA k : config.keepAllHeadings \/ links[k] # Undefined)
    IN  /\ \A k \in 1..(Len(es) - 1) : DocBefore(es[k], es[k + 1])
        /\ hs = [j \in 1..Len(kept) |->
                    [level |-> HeadingRank[doc[es[kept[j]]].tag] - 1,
                     title |-> NormalTitle(TextOf(doc, es[kept[j]])),
                     href |-> links[kept[j]]]]

\* C9: a heading whose anchor resolves is linked to pageHref#id, another
\* one to pageHref if it is the first heading element of its page and to
\* nothing otherwise; with keepAllHeadings off the stream of a page holds
\* the headings that have a link, with keepAllHeadings on all of them; the
\* headings kept are in document order, page by page in spine order, while
\* parseHeadingsSync runs and at its return, and with keepAllHeadings off
\* every heading that reaches a builder has a link.
C9_HeadingStream ==
    /\ Len(pages) = pageNo - 1
    /\ pc \in {"parse", "buildToC"} =>
          \A i \in 1..Len(pages) :
             /\ pages[i].href = config.spine[i]
             /\ IsStreamOf(pages[i].headings, pages[i].href,
                           Len(HeadingElts(files[pages[i].href])))
    /\ (pc = "parse" /\ pageNo <= Len(config.spine)) => IsStreamOf(headings, Href, eltNo)
    /\ (pc # "parse" /\ ~config.keepAllHeadings) =>
          \A k \in 1..Len(Headings) : Truthy(Headings[k].href)

\* the return of parseHeadingsSync with keepAllHeadings off, with a heading
\* dropped after a heading linked to an anchor
C9_Witness ==
    /\ pc = "buildToC"
    /\ ~config.keepAllHeadings
    /\ \E i \in 1..Len(pages) :
          /\ Len(pages[i].headings) = 1
          /\ Len(HeadingElts(files[pages[i].href])) = 2
          /\ pages[i].headings[1].href = pages[i].href \o "#a"

\* the level and title of the heading elements of a page
LevelTitles(href) ==
    LET doc == files[href]
        es == HeadingElts(doc)
    IN  [k \in 1..Len(es) |-> <<HeadingRank[doc[es[k]].tag] - 1, NormalTitle(TextOf(doc, es[k]))>>]

\* pages A.html with headings (0, Intro), (1, Background) and B.html with
\* heading (0, Conclusion), no identifier anywhere, lenient, depth 6
C3_Book ==
    /\ config.spine = <<"A.html", "B.html">>
    /\ \A h \in DOMAIN files : \A e \in DOMAIN files[h] : ~Truthy(files[h][e].id)
    /\ LevelTitles("A.html") = <<(<<0, "Intro">>), (<<1, "Background">>)>>
    /\ LevelTitles("B.html") = <<(<<0, "Conclusion">>)>>
    /\ config.depth = DefaultDepth
    /\ ~config.strict
    /\ config.format = "json"

\* Intro with the child Background, then Conclusion
NestedToc ==
    (<<>> :> [title |-> Undefined, href |-> Undefined, children |-> TRUE])
    @@ (<<1>> :> [title |-> "Intro", href |-> "A.html", children |-> TRUE])
    @@ (<<1, 1>> :> [title |-> "Background", href |-> Undefined, children |-> FALSE])
    @@ (<<2>> :> [title |-> "Conclusion", href |-> "B.html", children |-> FALSE])

\* Intro, then Conclusion
FlatToc ==
    (<<>> :> [title |-> Undefined, href |-> Undefined, children |-> TRUE])
    @@ (<<1>> :> [title |-> "Intro", href |-> "A.html", children |-> FALSE])
    @@ (<<2>> :> [title |-> "Conclusion", href |-> "B.html", children |-> FALSE])

\* C3 as claimed: with keepAllHeadings not set, the book yields Intro linked
\* to A.html with the one child Background without link, then Conclusion
\* linked to B.html without children.
C3_BackgroundUnderIntro ==
    (C3_Book /\ ~config.keepAllHeadings /\ pc = "done") => output.body = NestedToc

\* C3 amended: with keepAllHeadings not set, the book yields two entries
\* without children, Intro linked to A.html and Conclusion linked to B.html:
\* Background has no link, is not the first heading of its page and is not
\* in the stream; the tree with Background under Intro is the result with
\* keepAllHeadings set.
C3_BackgroundDropped ==
    (C3_Book /\ pc = "done") =>
        output.body = IF config.keepAllHeadings THEN NestedToc ELSE FlatToc

C3_Witness ==
    /\ C3_Book
    /\ ~config.keepAllHeadings
    /\ pc = "done"
    /\ output.body = FlatToc
    /\ diag = <<>>

(***************************************************************************)
(* Properties of buildToC, on Spec.                                        *)
(***************************************************************************)
Supported == {"txt", "json", "ncx", "xhtml"}

\* C11: for a format other than txt, json, ncx and xhtml, buildToC writes
\* the error on the diagnostic channel and returns the empty output; no
\* builder runs: no heading is read and no text, tree or markup is built.
C11_UnsupportedFormat ==
    config.format \notin Supported =>
        /\ pc \in {"buildToC", "done"}
        /\ cursor = 1
        /\ txt = <<>> /\ toc = EmptyToc /\ dom = <<>>
        /\ pc = "buildToC" => diag = <<>> /\ output = Undefined
        /\ pc = "done" =>
              /\ output.body = <<>>
              /\ Len(diag) = 1
              /\ diag[1].msg = "unsupported output format"

\* buildToC has returned for the format pdf and a stream with headings
C11_Witness ==
    /\ config.format = "pdf"
    /\ pc = "done"
    /\ Len(Headings) > 1
    /\ output.body = <<>>
    /\ Len(diag) = 1

(***************************************************************************)
(* Properties of makeEPUB, on SpecEPUB.                                    *)
(***************************************************************************)
\* the entries of the archive with a name
EntriesNamed(name) == {i \in 1..Len(archive) : archive[i].name = name}

\* the states after the step of makeEPUB that decides on an index file
Decided(f) ==
    IF f = "toc.xhtml" THEN pc \in {"tocEPUB2", "rootfile", "content", "finalized"}
    ELSE IF f = "toc.ncx" THEN pc \in {"rootfile", "content", "finalized"}
    ELSE pc \in {"content", "finalized"}

\* C12: mimetype and META-INF/container.xml are always generated, mimetype
\* first; toc.xhtml, toc.ncx and content.opf are each generated under OPS/
\* if and only if the base directory has no file of that name; the finished
\* archive has exactly one entry of each of the three names, and the entry
\* of an existing file is the file of the base directory.
C12_IndexFilesGeneratedIfAbsent ==
    /\ pc # "makeEPUB" =>
          /\ archive[1] = Entry("mimetype", "generated", "application/epub+zip")
          /\ archive[2].name = "META-INF/container.xml"
          /\ archive[2].from = "generated"
    /\ \A k \in 1..Len(IndexFiles) :
          LET f == IndexFiles[k]
              generated == {i \in EntriesNamed("OPS/" \o f) : archive[i].from = "generated"}
          IN  /\ Decided(f) => (generated # {} <=> ~fileExists(f))
              /\ pc = "finalized" =>
                    /\ Cardinality(EntriesNamed("OPS/" \o f)) = 1
                    /\ fileExists(f) => generated = {}

\* a finished archive for a base directory that has toc.ncx only
C12_Witness ==
    /\ pc = "finalized"
    /\ fileExists("toc.ncx")
    /\ ~fileExists("toc.xhtml")
    /\ ~fileExists("content.opf")
    /\ tocFiles = <<"toc.xhtml">>
    /\ Len(archive) = 5 + Len(config.spine)

C14_NoRuntimeFailure == pc # "crashed"

\* the tag of the entries of a navigation markup form
ItemTag(format) == IF format = "ncx" THEN "navPoint" ELSE "li"

\* the titles of the entries of a document, in document order
DomTitles(d, tag) ==
    LET ps == InDocOrder({p \in DOMAIN d : d[p].tag = tag})
    IN  [i \in 1..Len(ps) |-> d[ps[i]].title]

\* C15: in the output of buildToC_xhtml and of buildToC_ncx every heading
\* with level < depth appears exactly once, and the list items / navPoints
\* are, in document order, the headings in the order of the stream.
C15_MarkupKeepsStreamOrder ==
    (pc = "done" /\ config.format \in {"ncx", "xhtml"}) =>
        DomTitles(output.body, ItemTag(config.format))
            = FilteredTitles(Headings, config.depth)

\* C16: after any prefix of any heading stream, in strict and in lenient
\* mode, every titled entry of the tree of buildToC_json is the entry of a
\* heading read so far and sits at the depth of that heading's level (the
\* top entries are at depth 0), so that a child is one level below its
\* titled parent.
C16_DepthIsLevel ==
    (config.format = "json" /\ pc \in {"json", "done"}) =>
        \A p \in DOMAIN toc \ {<<>>} :
            toc[p].title # Undefined =>
                /\ \E k \in 1..(cursor - 1) :
                      /\ Headings[k].title = toc[p].title
                      /\ Len(p) = Headings[k].level + 1
                /\ (Len(p) > 1 /\ toc[Parent(p)].title # Undefined) =>
                      \E k, j \in 1..(cursor - 1) :
                          /\ Headings[k].title = toc[p].title
                          /\ Headings[j].title = toc[Parent(p)].title
                          /\ Headings[k].level = Headings[j].level + 1

\* a lenient run that has placed a heading of level 2 under a placeholder
\* and a heading of level 1 after it
C16_Witness ==
    /\ config.format = "json" /\ ~config.strict /\ pc = "done"
    /\ \E p \in DOMAIN toc :
          /\ Len(p) = 3 /\ toc[p].title # Undefined
          /\ toc[Parent(p)].title = Undefined
    /\ \E p \in DOMAIN toc : Len(p) = 2 /\ toc[p].title # Undefined

\* C17: after every heading buildToC_json has processed, current is the
\* node reached from the root by following the last child currentLevel
\* times; once an entry has been placed, the last child of current is the
\* entry placed last, and it has no children; a step discards no entry, and
\* a heading with level = currentLevel is appended next to the entry placed
\* last at that level.
C17_InsertionPoint ==
    /\ []((config.format = "json" /\ pc \in {"json", "done"}) =>
            LET w == WalkLast(toc, <<>>, currentLevel)
            IN  /\ w.ok /\ w.at = current
                /\ created # <<>> =>
                      LET last == current \o <<NumChildren(toc, current)>>
                      IN  /\ NumChildren(toc, current) >= 1
                          /\ created[Len(created)].path = last
                          /\ Children(toc, last) = {})
    /\ [][JsonStep =>
            /\ \A q \in DOMAIN toc :
                  /\ q \in DOMAIN toc'
                  /\ toc'[q].title = toc[q].title
                  /\ toc'[q].href = toc[q].href
            /\ (branch' = "sibling" /\ created # <<>>) =>
                  LET recent == MostRecent(created, Headings[cursor].level)
                  IN  /\ created'[Len(created')].path
                            = [recent EXCEPT ![Len(recent)] = @ + 1]
                      /\ created'[Len(created')].path \notin DOMAIN toc]_vars

\* a heading placed as a sibling after a descend and an ascend
C17_Witness ==
    /\ config.format = "json" /\ pc = "json"
    /\ branch = "sibling"
    /\ currentLevel = 1
    /\ {<<1, 1>>, <<2, 1>>, <<2, 2>>} \subseteq DOMAIN toc

\* the heading of the stream with a title
HeadingTitled(title) == Headings[CHOOSE k \in 1..Len(Headings) : Headings[k].title = title]

\* C18: in the output of buildToC_xhtml and of buildToC_ncx an entry has a
\* link target (an href or src attribute) if and only if its heading has a
\* link; a heading without link is rendered without target.
C18_TargetIffLink ==
    (pc \in {"ncx", "xhtml"}) =>
        \A p \in DOMAIN dom :
            dom[p].tag = ItemTag(config.format) =>
                (dom[p].link.attr # "" <=> Truthy(HeadingTitled(dom[p].title).href))

(***************************************************************************)
(* Properties of buildOPF_manifest_spine, on SpecOPF.                      *)
(***************************************************************************)
\* C19: for every set of files and every spine, also one that lists an
\* href twice or an href that is not among the files, the idref of each
\* itemref is the id of exactly one item of the manifest, and the href of
\* that item is the spine entry at that position.
C19_ItemrefsResolve ==
    pc = "returned" =>
        /\ opf = buildOPF_manifest_spine(found, config.spine, tocFiles)
        /\ \A i \in 1..Len(config.spine) :
              LET hits == {k \in 1..Len(opf.manifest) : opf.manifest[k].id = opf.itemrefs[i]}
              IN  /\ Cardinality(hits) = 1
                  /\ \A k \in hits : opf.manifest[k].href = config.spine[i]

====
